---------------------------- MODULE Spec2Model ----------------------------
(***************************************************************************)
(* Model of the personality -> career matcher (main.py, engine.py,         *)
(* models.py, io_utils.py).                                                *)
(*                                                                         *)
(* Numbers.  Python floats are modelled as exact rationals <<n, d>> in     *)
(* lowest terms (d > 0).  UserProfile and Recommender.score add and        *)
(* multiply a handful of values of magnitude near 1; within the bounds of  *)
(* the model these are kept exact.  minmax_normalize subtracts the minimum *)
(* from every score and divides by the range; there the operands can       *)
(* differ widely in magnitude and the rounding of each float operation     *)
(* (IEEE round-to-nearest, ties-to-even) is modelled by Fl, with a         *)
(* significand of SignificandBits bits (a double has 53).                  *)
(*                                                                         *)
(* Ordered dictionaries (Python dicts keep insertion order) are modelled   *)
(* as sequences of <<key, value>> pairs with distinct keys.                *)
(* Strings that the code trims or joins are sequences of one-character     *)
(* strings.                                                                *)
(***************************************************************************)
EXTENDS Integers, Sequences, FiniteSets, TLC

VARIABLES
    pc,           \* position of the run / last operation applied
    profile,      \* UserProfile: [raw, cnt, traits]
    cfg,          \* merged configuration: [mode, top_k]
    questions,    \* loaded questions.json
    careers,      \* loaded careers.json
    prefs,        \* preference ratings collected so far (salary, stability, creativity, social)
    qi,           \* number of survey questions answered
    raw_scores,   \* ScoreMapping returned by Recommender.score
    norm_scores,  \* minmax_normalize(raw_scores)
    topk,         \* Ranking returned by Recommender.top_k(raw_scores, k)
    explanations, \* mapping returned by Recommender.explain
    report,       \* report sink: "none" or the saved report
    history,      \* history.csv: [exists, lines]
    error         \* "none" or the exception that ended the run

vars == <<pc, profile, cfg, questions, careers, prefs, qi, raw_scores,
          norm_scores, topk, explanations, report, history, error>>

-----------------------------------------------------------------------------
(* Bounds of the model *)

\* UserProfile.update_trait calls per profile
MaxAnswers == 3
\* bits of significand in the model of float rounding
SignificandBits == 3

-----------------------------------------------------------------------------
(* Arithmetic: exact rationals and float rounding *)

Abs(x) == IF x < 0 THEN -x ELSE x

RECURSIVE GCD(_, _)
GCD(a, b) == IF b = 0 THEN a ELSE GCD(b, a % b)

\* the rational n/d in lowest terms, d > 0
Rat(n, d) ==
    LET s == IF d < 0 THEN -1 ELSE 1
        g == GCD(Abs(n), Abs(d))
    IN  <<(s * n) \div g, (s * d) \div g>>

Int2R(n) == <<n, 1>>
RZero == Int2R(0)
ROne == Int2R(1)

RAdd(a, b) == Rat(a[1] * b[2] + b[1] * a[2], a[2] * b[2])
RSub(a, b) == Rat(a[1] * b[2] - b[1] * a[2], a[2] * b[2])
RMul(a, b) == Rat(a[1] * b[1], a[2] * b[2])
RDiv(a, b) == Rat(a[1] * b[2], a[2] * b[1])
RLt(a, b) == a[1] * b[2] < b[1] * a[2]
RLe(a, b) == a[1] * b[2] <= b[1] * a[2]

RECURSIVE Pow2(_)
Pow2(n) == IF n = 0 THEN 1 ELSE 2 * Pow2(n - 1)

\* n/d > 0 rounded to SignificandBits significant bits, ties to even;
\* up/down accumulate the power of two the significand was scaled by
RECURSIVE FlScale(_, _, _, _)
FlScale(n, d, up, down) ==
    IF n < Pow2(SignificandBits - 1) * d THEN FlScale(2 * n, d, 2 * up, down)
    ELSE IF n >= Pow2(SignificandBits) * d THEN FlScale(n, 2 * d, up, 2 * down)
    ELSE LET m == n \div d
             r == n % d
             m2 == IF 2 * r > d \/ (2 * r = d /\ m % 2 = 1) THEN m + 1 ELSE m
         IN  Rat(m2 * down, up)

\* the float nearest to the rational q
Fl(q) ==
    IF q[1] = 0 THEN q
    ELSE IF q[1] < 0 THEN LET p == FlScale(-q[1], q[2], 1, 1) IN <<-p[1], p[2]>>
    ELSE FlScale(q[1], q[2], 1, 1)

-----------------------------------------------------------------------------
(* Ordered dictionaries as sequences of <<key, value>> pairs *)

Keys(d) == {d[i][1] : i \in 1..Len(d)}
HasKey(d, key) == key \in Keys(d)
IndexOf(d, key) == CHOOSE i \in 1..Len(d) : d[i][1] = key
\* dict.get(key, default)
Get(d, key, default) == IF HasKey(d, key) THEN d[IndexOf(d, key)][2] ELSE default
\* d[key] = value: a new key is appended, an existing key keeps its place
Put(d, key, value) ==
    IF HasKey(d, key)
    THEN [d EXCEPT ![IndexOf(d, key)] = <<key, value>>]
    ELSE Append(d, <<key, value>>)
DistinctKeys(d) == \A i, j \in 1..Len(d) : d[i][1] = d[j][1] => i = j

-----------------------------------------------------------------------------
(* models.py: UserProfile *)

TRAITS == <<"E", "C", "O", "A", "N", "M">>
TraitSet == {TRAITS[i] : i \in 1..Len(TRAITS)}

\* UserProfile(): raw and cnt are zero for the six traits, traits is empty
UserProfile ==
    [raw |-> [t \in TraitSet |-> 0],
     cnt |-> [t \in TraitSet |-> 0],
     traits |-> <<>>]

\* a faulty variant: it scores a reversed answer as 5 - score
update_trait_rev5(p, trait, score, reverse) ==
    LET raw0 == IF trait \in DOMAIN p.raw THEN p.raw ELSE (trait :> 0) @@ p.raw
        cnt0 == IF trait \in DOMAIN p.cnt THEN p.cnt ELSE (trait :> 0) @@ p.cnt
        val == IF reverse THEN 5 - score ELSE score
    IN  [p EXCEPT !.raw = [raw0 EXCEPT ![trait] = @ + val],
                  !.cnt = [cnt0 EXCEPT ![trait] = @ + 1]]

update_trait(p, trait, score, reverse) ==
    LET raw0 == IF trait \in DOMAIN p.raw THEN p.raw ELSE (trait :> 0) @@ p.raw
        cnt0 == IF trait \in DOMAIN p.cnt THEN p.cnt ELSE (trait :> 0) @@ p.cnt
        val == IF reverse THEN 6 - score ELSE score
    IN  [p EXCEPT !.raw = [raw0 EXCEPT ![trait] = @ + val],
                  !.cnt = [cnt0 EXCEPT ![trait] = @ + 1]]

finalize(p) ==
    [p EXCEPT !.traits =
        [t \in DOMAIN p.raw |->
            LET avg == IF p.cnt[t] = 0 THEN Int2R(3) ELSE Rat(p.raw[t], p.cnt[t])
            IN  RDiv(RSub(avg, ROne), Int2R(4))]]

RECURSIVE SumOver(_, _)
SumOver(f, S) ==
    IF S = {} THEN 0
    ELSE LET x == CHOOSE y \in S : TRUE IN f[x] + SumOver(f, S \ {x})

\* answers accumulated in a profile
TotalAnswers(p) == SumOver(p.cnt, DOMAIN p.cnt)

-----------------------------------------------------------------------------
(* models.py: Preferences *)

PREF_KEYS == <<"salary", "stability", "creativity", "social">>
PrefKeySet == {PREF_KEYS[i] : i \in 1..Len(PREF_KEYS)}

Max(a, b) == IF a >= b THEN a ELSE b
Min(a, b) == IF a <= b THEN a ELSE b

\* Preferences(): every rating defaults to 3
DefaultRating == 3
Preferences == [i \in 1..Len(PREF_KEYS) |-> DefaultRating]

\* Preferences.to_weights: ratings floored at 1, divided by their sum;
\* pr is the sequence of the four ratings in the order of PREF_KEYS
to_weights(pr) ==
    LET vals == [i \in 1..Len(PREF_KEYS) |-> Max(1, pr[i])]
        s == SumOver(vals, DOMAIN vals)
    IN  [i \in 1..Len(PREF_KEYS) |-> <<PREF_KEYS[i], Rat(vals[i], s)>>]

-----------------------------------------------------------------------------
(* JSON values of careers.json *)

\* a JSON number n/d, and a JSON string
JNum(n, d) == [num |-> Rat(n, d)]
JText(s) == [text |-> s]
\* float(w) raises for a string that does not spell a number, as the
\* strings of the model
FloatRaises(w) == "num" \notin DOMAIN w

\* str.strip() on a sequence of characters
Whitespace == {" "}
RECURSIVE LStrip(_)
LStrip(s) == IF s # <<>> /\ Head(s) \in Whitespace THEN LStrip(Tail(s)) ELSE s
RECURSIVE RStrip(_)
RStrip(s) ==
    IF s # <<>> /\ s[Len(s)] \in Whitespace THEN RStrip(SubSeq(s, 1, Len(s) - 1)) ELSE s
strip(s) == RStrip(LStrip(s))

\* c.get(key, {}) on a career record
GetDict(c, key) == IF key \in DOMAIN c THEN c[key] ELSE <<>>

-----------------------------------------------------------------------------
(* engine.py: scorer, normalizer, Recommender *)

\* traits.get(t, 0.0) on the finalized trait mapping
TraitGet(traits, t) == IF t \in DOMAIN traits THEN traits[t] ELSE RZero

\* WeightedScorer.score: sum of traits[t] * w over the weights, in order
RECURSIVE WeightedScorer_score(_, _)
WeightedScorer_score(traits, weights) ==
    IF weights = <<>> THEN RZero
    ELSE RAdd(RMul(TraitGet(traits, Head(weights)[1]), Head(weights)[2].num),
              WeightedScorer_score(traits, Tail(weights)))

\* the tie-break sum over the keys of pref_w
RECURSIVE TieBreak(_, _)
TieBreak(pref_w, cprefs) ==
    IF pref_w = <<>> THEN RZero
    ELSE RAdd(RMul(Head(pref_w)[2], Get(cprefs, Head(pref_w)[1], JNum(0, 1)).num),
              TieBreak(Tail(pref_w), cprefs))

\* the 0.05 coefficient of the tie-break term, as 1/TieBreakInv
TieBreakInv == 20

\* the score stored for one career: base + 0.05 * tb
CareerScore(c, pref_w, user_traits) ==
    RAdd(WeightedScorer_score(user_traits, GetDict(c, "weights")),
         RMul(Rat(1, TieBreakInv), TieBreak(pref_w, GetDict(c, "preferences"))))

\* a faulty variant: it keeps the first score stored under a name
RECURSIVE ScoreLoopFirstWins(_, _, _, _)
ScoreLoopFirstWins(cs, pref_w, user_traits, scores) ==
    IF cs = <<>> THEN scores
    ELSE LET c == Head(cs)
             name == strip(c.name)
         IN  ScoreLoopFirstWins(Tail(cs), pref_w, user_traits,
                 IF HasKey(scores, name) THEN scores
                 ELSE Put(scores, name, CareerScore(c, pref_w, user_traits)))

\* the loop of Recommender.score over the careers cs, scores so far
RECURSIVE ScoreLoop(_, _, _, _)
ScoreLoop(cs, pref_w, user_traits, scores) ==
    IF cs = <<>> THEN scores
    ELSE LET c == Head(cs)
             name == strip(c.name)
         IN  ScoreLoop(Tail(cs), pref_w, user_traits,
                       Put(scores, name, CareerScore(c, pref_w, user_traits)))

score_first_wins(cs, pref_w, user_traits) == ScoreLoopFirstWins(cs, pref_w, user_traits, <<>>)

\* Recommender.score
score(cs, pref_w, user_traits) == ScoreLoop(cs, pref_w, user_traits, <<>>)

\* position at which x enters a list sorted by descending value, after its equals
RECURSIVE InsertDesc(_, _)
InsertDesc(sorted, x) ==
    IF sorted = <<>> THEN <<x>>
    ELSE IF RLt(Head(sorted)[2], x[2]) THEN <<x>> \o sorted
    ELSE <<Head(sorted)>> \o InsertDesc(Tail(sorted), x)

\* sorted(items, key=value, reverse=True): stable, descending
RECURSIVE SortDescFrom(_, _)
SortDescFrom(items, acc) ==
    IF items = <<>> THEN acc ELSE SortDescFrom(Tail(items), InsertDesc(acc, Head(items)))
SortDesc(items) == SortDescFrom(items, <<>>)

RECURSIVE InsertAsc(_, _)
InsertAsc(sorted, x) ==
    IF sorted = <<>> THEN <<x>>
    ELSE IF RLt(x[2], Head(sorted)[2]) THEN <<x>> \o sorted
    ELSE <<Head(sorted)>> \o InsertAsc(Tail(sorted), x)

\* sorted(items, key=value): stable, ascending
RECURSIVE SortAscFrom(_, _)
SortAscFrom(items, acc) ==
    IF items = <<>> THEN acc ELSE SortAscFrom(Tail(items), InsertAsc(acc, Head(items)))
SortAsc(items) == SortAscFrom(items, <<>>)

\* s[:k]: the first k items, and for k < 0 all but the last -k
SlicePrefix(s, k) ==
    IF k >= 0 THEN SubSeq(s, 1, Min(k, Len(s)))
    ELSE SubSeq(s, 1, Max(0, Len(s) + k))

\* a faulty variant: it sorts ascending
top_k_ascending(scores, k) == SlicePrefix(SortAsc(scores), k)

\* Recommender.top_k
top_k(scores, k) == SlicePrefix(SortDesc(scores), k)

\* min and max of the values of a non-empty mapping
RECURSIVE MinVal(_)
MinVal(d) ==
    IF Len(d) = 1 THEN d[1][2]
    ELSE LET m == MinVal(Tail(d)) IN IF RLe(d[1][2], m) THEN d[1][2] ELSE m
RECURSIVE MaxVal(_)
MaxVal(d) ==
    IF Len(d) = 1 THEN d[1][2]
    ELSE LET m == MaxVal(Tail(d)) IN IF RLe(m, d[1][2]) THEN d[1][2] ELSE m

\* a faulty variant: it rescales from the maximum: (mx - v) / (mx - mn)
minmax_normalize_flipped(scores) ==
    IF scores = <<>> THEN <<>>
    ELSE LET mn == MinVal(scores)
             mx == MaxVal(scores)
         IN  IF mx = mn
             THEN [i \in 1..Len(scores) |-> <<scores[i][1], ROne>>]
             ELSE [i \in 1..Len(scores) |->
                     <<scores[i][1],
                       Fl(RDiv(Fl(RSub(mx, scores[i][2])), Fl(RSub(mx, mn))))>>]

\* minmax_normalize: each float operation rounds
minmax_normalize(scores) ==
    IF scores = <<>> THEN <<>>
    ELSE LET mn == MinVal(scores)
             mx == MaxVal(scores)
         IN  IF mx = mn
             THEN [i \in 1..Len(scores) |-> <<scores[i][1], ROne>>]
             ELSE [i \in 1..Len(scores) |->
                     <<scores[i][1],
                       Fl(RDiv(Fl(RSub(scores[i][2], mn)), Fl(RSub(mx, mn))))>>]

\* contrib = {t: traits.get(t, 0.0) * w for t, w in weights.items()}
Contrib(weights, traits) ==
    [i \in 1..Len(weights) |->
        <<weights[i][1], RMul(TraitGet(traits, weights[i][1]), weights[i][2].num)>>]

\* [(t, v) for t, v in pos_sorted if v > 0]
RECURSIVE Positive(_)
Positive(items) ==
    IF items = <<>> THEN <<>>
    ELSE IF RLt(RZero, Head(items)[2]) THEN <<Head(items)>> \o Positive(Tail(items))
    ELSE Positive(Tail(items))

\* the preference key preference_blurb names: max(prefs.items(), key=value)[0],
\* the first of the largest; <<>> when the career declares no preferences
RECURSIVE TopPref(_)
TopPref(cprefs) ==
    IF Len(cprefs) = 1 THEN cprefs[1]
    ELSE LET m == TopPref(Tail(cprefs))
         IN  IF RLt(cprefs[1][2].num, m[2].num) THEN m ELSE cprefs[1]
preference_blurb(career_item) ==
    LET cprefs == GetDict(career_item, "preferences")
    IN  IF cprefs = <<>> THEN <<>> ELSE <<TopPref(cprefs)[1]>>

\* the body of the loop of Recommender.explain for one career: the traits the
\* strengths sentence names (none: the generic sentence), the watch-out
\* sentence as <<phrasing, trait>> (<<>>: omitted), the preference sentence
explain_career(career_item, traits) ==
    LET contrib == Contrib(GetDict(career_item, "weights"), traits)
        pos_sorted == SortDesc(contrib)
        neg_sorted == SortAsc(contrib)
        watch == IF neg_sorted # <<>> THEN <<neg_sorted[1]>> ELSE <<>>
    IN  [strengths |-> [i \in 1..Min(2, Len(Positive(pos_sorted))) |-> Positive(pos_sorted)[i][1]],
         watch |-> IF watch = <<>> THEN <<>>
                   ELSE IF RLe(watch[1][2], RZero) THEN <<"Watch-out", watch[1][1]>>
                   ELSE <<"Potential growth", watch[1][1]>>,
         pref |-> preference_blurb(career_item)]

\* next(c for c in self.careers if c["name"] == name): the index of the first
\* career whose name is exactly name, 0 when there is none (StopIteration)
RECURSIVE FirstNamed(_, _, _)
FirstNamed(cs, name, i) ==
    IF i > Len(cs) THEN 0
    ELSE IF cs[i].name = name THEN i
    ELSE FirstNamed(cs, name, i + 1)

\* the loop of Recommender.explain over the ranking tk
RECURSIVE ExplainLoop(_, _, _, _)
ExplainLoop(cs, tk, traits, expl) ==
    IF tk = <<>> THEN [raised |-> "none", value |-> expl]
    ELSE LET name == Head(tk)[1]
             i == FirstNamed(cs, name, 1)
         IN  IF i = 0 THEN [raised |-> "StopIteration", value |-> expl]
             ELSE ExplainLoop(cs, Tail(tk), traits,
                              Put(expl, name, explain_career(cs[i], traits)))

\* Recommender.explain: the explanations, or the exception it raises
explain(cs, tk, traits) == ExplainLoop(cs, tk, traits, <<>>)

-----------------------------------------------------------------------------
(* io_utils.py: configuration and history *)

DefaultTopK == 3
DEFAULT_CONFIG == [mode |-> "weighted", top_k |-> DefaultTopK]

\* load_config: the defaults overridden by the file's object; the defaults
\* alone when the file is missing or cannot be read as an object
load_config(file, defaults) ==
    IF file.state = "ok"
    THEN [key \in DOMAIN defaults \cup DOMAIN file.data |->
            IF key \in DOMAIN file.data THEN file.data[key] ELSE defaults[key]]
    ELSE defaults

\* ",".join(fields) and its inverse, line.split(",")
RECURSIVE Join(_)
Join(fields) ==
    IF fields = <<>> THEN <<>>
    ELSE IF Len(fields) = 1 THEN fields[1]
    ELSE fields[1] \o <<",">> \o Join(Tail(fields))
RECURSIVE SplitFrom(_, _)
SplitFrom(line, field) ==
    IF line = <<>> THEN <<field>>
    ELSE IF Head(line) = "," THEN <<field>> \o SplitFrom(Tail(line), <<>>)
    ELSE SplitFrom(Tail(line), Append(field, Head(line)))
Split(line) == SplitFrom(line, <<>>)

\* f"{x:0.3f}" for 0 <= x < 10: x rounded to thousandths (ties to even),
\* written as one digit, a point and three digits
Digits == <<"0", "1", "2", "3", "4", "5", "6", "7", "8", "9">>
Fmt3(x) ==
    LET n == x[1] * 1000
        m == n \div x[2]
        r == n % x[2]
        milli == IF 2 * r > x[2] \/ (2 * r = x[2] /\ m % 2 = 1) THEN m + 1 ELSE m
    IN  <<Digits[(milli \div 1000) + 1], ".", Digits[((milli \div 100) % 10) + 1],
          Digits[((milli \div 10) % 10) + 1], Digits[(milli % 10) + 1]>>

HEADERS == <<<<"E">>, <<"C">>, <<"O">>, <<"A">>, <<"N">>, <<"M">>,
             <<"t", "o", "p", "1">>, <<"t", "o", "p", "2">>, <<"t", "o", "p", "3">>>>
HistoryNames == 3

\* the row append_history writes: the six trait values, the ranked names,
\* and empty fields up to three names
HistoryRow(traits, tk) ==
    [i \in 1..Len(TRAITS) |-> Fmt3(TraitGet(traits, TRAITS[i]))]
    \o [i \in 1..Len(tk) |-> tk[i][1]]
    \o [i \in 1..Max(0, HistoryNames - Len(tk)) |-> <<>>]

\* append_history on the file h = [exists, lines]
append_history(h, traits, tk) ==
    [exists |-> TRUE,
     lines |-> h.lines
               \o (IF ~h.exists THEN <<Join(HEADERS)>> ELSE <<>>)
               \o <<Join(HistoryRow(traits, tk))>>]

-----------------------------------------------------------------------------
(* main.py: prompts and validation *)

LikertLow == 1
LikertHigh == 5

\* ask_likert returns the input when it parses as an integer in [low, high],
\* and otherwise prompts again
ask_likert_accepts(inp, low, high) ==
    "int" \in DOMAIN inp /\ low <= inp.int /\ inp.int <= high

RequiredQuestionKeys == {"id", "text", "trait", "reverse"}

\* validate_questions: "ok", or the exception it raises
validate_questions(qs) ==
    IF qs = <<>> THEN "ValueError"
    ELSE IF \E i \in 1..Len(qs) :
              \/ ~(RequiredQuestionKeys \subseteq DOMAIN qs[i])
              \/ qs[i].trait \notin TraitSet
         THEN "ValueError"
         ELSE "ok"

\* validate_careers: "ok", or the exception it raises
validate_careers(cs) ==
    IF cs = <<>> THEN "ValueError"
    ELSE IF \E i \in 1..Len(cs) :
              \/ "name" \notin DOMAIN cs[i]
              \/ "weights" \notin DOMAIN cs[i]
              \/ \E j \in 1..Len(cs[i].weights) :
                    \/ cs[i].weights[j][1] \notin TraitSet
                    \/ FloatRaises(cs[i].weights[j][2])
         THEN "ValueError"
         ELSE "ok"

\* the methods class Recommender defines
RecommenderMethods == {"__init__", "score", "top_k", "explain"}

-----------------------------------------------------------------------------
(* Inputs: the files and the answers a run can meet *)

\* lengths of the career lists and score mappings drawn as inputs
MaxCareers == 2
MaxScores == 4
\* append_history calls on one file, and the longest ranking passed to it
MaxRuns == 2
MaxRank == 4

\* config.json: missing, unreadable, or an object
ConfigFiles ==
    <<[state |-> "missing"],
      [state |-> "malformed"],
      [state |-> "ok", data |-> <<>>],
      [state |-> "ok", data |-> [top_k |-> 1]],
      [state |-> "ok", data |-> [top_k |-> -1]]>>

\* questions.json: valid lists, the empty list, an unknown trait, a missing key
QuestionFiles ==
    <<<<[id |-> 1, text |-> "q1", trait |-> "E", reverse |-> FALSE]>>,
      <<[id |-> 1, text |-> "q1", trait |-> "E", reverse |-> FALSE],
        [id |-> 2, text |-> "q2", trait |-> "C", reverse |-> TRUE]>>,
      <<>>,
      <<[id |-> 1, text |-> "q1", trait |-> "Z", reverse |-> FALSE]>>,
      <<[id |-> 1, text |-> "q1", trait |-> "E"]>>>>

\* career records that pass validate_careers
CareerPool ==
    <<[name |-> <<"X">>,
       weights |-> <<<<"E", JNum(1, 1)>>, <<"C", JNum(1, 1)>>>>,
       preferences |-> <<<<"salary", JNum(1, 1)>>>>],
      [name |-> <<" ", "X", " ">>,
       weights |-> <<<<"E", JNum(-1, 1)>>>>],
      [name |-> <<"Y">>,
       weights |-> <<<<"C", JNum(1, 2)>>, <<"E", JNum(-1, 1)>>, <<"O", JNum(2, 1)>>>>,
       preferences |-> <<<<"creativity", JNum(1, 2)>>, <<"social", JNum(1, 2)>>>>],
      [name |-> <<"Y">>,
       weights |-> <<>>],
      [name |-> <<"Z">>,
       weights |-> <<<<"M", JNum(1, 1)>>, <<"E", JNum(0, 1)>>>>],
      [name |-> <<"X">>,
       weights |-> <<<<"E", JNum(1, 1)>>>>,
       preferences |-> <<<<"prestige", JNum(1, 1)>>>>]>>

\* career records validate_careers rejects: no name, no weights, an unknown
\* trait code, a weight that is not a number
BadCareers ==
    <<[weights |-> <<<<"E", JNum(1, 1)>>>>],
      [name |-> <<"B">>],
      [name |-> <<"B">>, weights |-> <<<<"Z", JNum(1, 1)>>>>],
      [name |-> <<"B">>, weights |-> <<<<"E", JText("abc")>>>>]>>

\* the career lists of length 1..MaxCareers over the pool
CareerLists ==
    UNION {[1..n -> 1..Len(CareerPool)] : n \in 1..MaxCareers}
CareersOf(ix) == [i \in 1..Len(ix) |-> CareerPool[ix[i]]]

\* careers.json of a run: the empty list, a list of pool records, or a pool
\* record followed by a record validation rejects
CareerFiles ==
    {<<>>} \cup {<<i>> : i \in 1..Len(CareerPool)} \cup {<<1, 3>>, <<1, 2>>}
           \cup {<<1, -b>> : b \in 1..Len(BadCareers)}
           \cup {<<-b>> : b \in 1..Len(BadCareers)}
FileCareers(ix) ==
    [i \in 1..Len(ix) |-> IF ix[i] > 0 THEN CareerPool[ix[i]] ELSE BadCareers[-ix[i]]]

\* what the user types at a survey prompt, and at a preference prompt
SurveyInputs ==
    <<[int |-> 1], [int |-> 2], [int |-> 3], [int |-> 4], [int |-> 5],
      [int |-> 0], [int |-> 6], [text |-> "abc"]>>
PreferenceInputs ==
    <<[int |-> 1], [int |-> 5], [int |-> 6], [text |-> "abc"]>>

-----------------------------------------------------------------------------
(* main.py: the run, one action per step of main() *)

\* an exception leaves main() and is caught by the handlers of __main__
Raise(e) == pc' = "handled" /\ error' = e

\* cfg = load_config(CONFIG_FILE, DEFAULT_CONFIG)
LoadConfig ==
    /\ pc = "start"
    /\ \E i \in 1..Len(ConfigFiles) : cfg' = load_config(ConfigFiles[i], DEFAULT_CONFIG)
    /\ pc' = "load"
    /\ UNCHANGED <<profile, questions, careers, prefs, qi, raw_scores, norm_scores,
                   topk, explanations, report, history, error>>

\* questions = load_json(...); careers = load_json(...)
LoadData ==
    /\ pc = "load"
    /\ \E q \in 1..Len(QuestionFiles), ix \in CareerFiles :
          /\ questions' = QuestionFiles[q]
          /\ careers' = FileCareers(ix)
    /\ pc' = "validate_questions"
    /\ UNCHANGED <<profile, cfg, prefs, qi, raw_scores, norm_scores, topk,
                   explanations, report, history, error>>

\* load_json on a file that does not exist
LoadDataMissing ==
    /\ pc = "load"
    /\ Raise("FileNotFoundError")
    /\ UNCHANGED <<profile, cfg, questions, careers, prefs, qi, raw_scores,
                   norm_scores, topk, explanations, report, history>>

ValidateQuestions ==
    /\ pc = "validate_questions"
    /\ IF validate_questions(questions) = "ok"
       THEN pc' = "validate_careers" /\ error' = error
       ELSE Raise(validate_questions(questions))
    /\ UNCHANGED <<profile, cfg, questions, careers, prefs, qi, raw_scores,
                   norm_scores, topk, explanations, report, history>>

ValidateCareers ==
    /\ pc = "validate_careers"
    /\ IF validate_careers(careers) = "ok"
       THEN pc' = "preferences" /\ error' = error
       ELSE Raise(validate_careers(careers))
    /\ UNCHANGED <<profile, cfg, questions, careers, prefs, qi, raw_scores,
                   norm_scores, topk, explanations, report, history>>

\* collect_preferences: one ask_likert prompt; a rejected input prompts again
AskPreference ==
    /\ pc = "preferences"
    /\ \E i \in 1..Len(PreferenceInputs) :
          LET inp == PreferenceInputs[i]
          IN  IF ask_likert_accepts(inp, LikertLow, LikertHigh)
              THEN /\ prefs' = Append(prefs, inp.int)
                   /\ pc' = IF Len(prefs) + 1 = Len(PREF_KEYS) THEN "survey" ELSE pc
                   /\ profile' = IF Len(prefs) + 1 = Len(PREF_KEYS) THEN UserProfile ELSE profile
              ELSE UNCHANGED <<prefs, pc, profile>>
    /\ UNCHANGED <<cfg, questions, careers, qi, raw_scores, norm_scores, topk,
                   explanations, report, history, error>>

\* take_survey: one question asked and recorded
AskSurvey ==
    /\ pc = "survey"
    /\ qi < Len(questions)
    /\ \E i \in 1..Len(SurveyInputs) :
          LET inp == SurveyInputs[i]
              q == questions[qi + 1]
          IN  IF ask_likert_accepts(inp, LikertLow, LikertHigh)
              THEN /\ profile' = update_trait(profile, q.trait, inp.int, q.reverse)
                   /\ qi' = qi + 1
              ELSE UNCHANGED <<profile, qi>>
    /\ UNCHANGED <<pc, cfg, questions, careers, prefs, raw_scores, norm_scores, topk,
                   explanations, report, history, error>>

\* take_survey: profile.finalize() after the last question
FinalizeSurvey ==
    /\ pc = "survey"
    /\ qi = Len(questions)
    /\ profile' = finalize(profile)
    /\ pc' = "score"
    /\ UNCHANGED <<cfg, questions, careers, prefs, qi, raw_scores, norm_scores, topk,
                   explanations, report, history, error>>

\* rec = Recommender(careers, mode, prefs); raw_scores = rec.score(profile.traits)
Score ==
    /\ pc = "score"
    /\ raw_scores' = score(careers, to_weights(prefs), profile.traits)
    /\ pc' = "normalize"
    /\ UNCHANGED <<profile, cfg, questions, careers, prefs, qi, norm_scores, topk,
                   explanations, report, history, error>>

\* norm_scores = minmax_normalize(raw_scores)
Normalize ==
    /\ pc = "normalize"
    /\ norm_scores' = minmax_normalize(raw_scores)
    /\ pc' = "top_k"
    /\ UNCHANGED <<profile, cfg, questions, careers, prefs, qi, raw_scores, topk,
                   explanations, report, history, error>>

\* topk = rec.top_k(raw_scores, k=top_k)
TopK ==
    /\ pc = "top_k"
    /\ topk' = top_k(raw_scores, cfg.top_k)
    /\ pc' = "explain"
    /\ UNCHANGED <<profile, cfg, questions, careers, prefs, qi, raw_scores,
                   norm_scores, explanations, report, history, error>>

\* explanations = rec.explain(topk, profile.traits)
Explain ==
    /\ pc = "explain"
    /\ LET r == explain(careers, topk, profile.traits)
       IN  IF r.raised = "none"
           THEN explanations' = r.value /\ pc' = "show" /\ error' = error
           ELSE explanations' = explanations /\ Raise(r.raised)
    /\ UNCHANGED <<profile, cfg, questions, careers, prefs, qi, raw_scores,
                   norm_scores, topk, report, history>>

\* show_summary prints; reports_dir.mkdir
ShowSummary ==
    /\ pc = "show"
    /\ pc' = "report"
    /\ UNCHANGED <<profile, cfg, questions, careers, prefs, qi, raw_scores,
                   norm_scores, topk, explanations, report, history, error>>

\* content = rec.make_report(...): Recommender defines no make_report, the
\* attribute lookup raises; save_text and append_history are not reached
MakeReport ==
    /\ pc = "report"
    /\ "make_report" \notin RecommenderMethods
    /\ Raise("AttributeError")
    /\ UNCHANGED <<profile, cfg, questions, careers, prefs, qi, raw_scores,
                   norm_scores, topk, explanations, report, history>>

NoFile == [exists |-> FALSE, lines |-> <<>>]

Init ==
    /\ pc = "start"
    /\ profile = UserProfile
    /\ cfg = DEFAULT_CONFIG
    /\ questions = <<>>
    /\ careers = <<>>
    /\ prefs = <<>>
    /\ qi = 0
    /\ raw_scores = <<>>
    /\ norm_scores = <<>>
    /\ topk = <<>>
    /\ explanations = <<>>
    /\ report = "none"
    /\ history = NoFile
    /\ error = "none"

Next ==
    \/ LoadConfig
    \/ LoadData
    \/ LoadDataMissing
    \/ ValidateQuestions
    \/ ValidateCareers
    \/ AskPreference
    \/ AskSurvey
    \/ FinalizeSurvey
    \/ Score
    \/ Normalize
    \/ TopK
    \/ Explain
    \/ ShowSummary
    \/ MakeReport

Spec == Init /\ [][Next]_vars

-----------------------------------------------------------------------------
(* UserProfile on its own: any sequence of update_trait calls, then finalize *)

\* the traits update_trait is called with: the six codes and one other
TraitInputs == TraitSet \cup {"X"}

ProfileUpdate ==
    /\ pc = "profile"
    /\ TotalAnswers(profile) < MaxAnswers
    /\ \E t \in TraitInputs, sc \in LikertLow..LikertHigh, rev \in BOOLEAN :
          profile' = update_trait(profile, t, sc, rev)
    /\ UNCHANGED <<pc, cfg, questions, careers, prefs, qi, raw_scores, norm_scores,
                   topk, explanations, report, history, error>>

ProfileFinalize ==
    /\ pc = "profile"
    /\ profile' = finalize(profile)
    /\ pc' = "finalized"
    /\ UNCHANGED <<cfg, questions, careers, prefs, qi, raw_scores, norm_scores, topk,
                   explanations, report, history, error>>

InitProfile ==
    /\ pc = "profile"
    /\ profile = UserProfile
    /\ cfg = DEFAULT_CONFIG
    /\ questions = <<>>
    /\ careers = <<>>
    /\ prefs = <<>>
    /\ qi = 0
    /\ raw_scores = <<>>
    /\ norm_scores = <<>>
    /\ topk = <<>>
    /\ explanations = <<>>
    /\ report = "none"
    /\ history = NoFile
    /\ error = "none"

NextProfile == ProfileUpdate \/ ProfileFinalize

SpecProfile == InitProfile /\ [][NextProfile]_vars

-----------------------------------------------------------------------------
(* minmax_normalize and top_k on their own: any score mapping, any k *)

Letters == <<"a", "b", "c", "d", "e", "f">>
NameOf(i) == <<Letters[i]>>

\* scores a mapping can hold: floats of small and of large magnitude
ScoreVals ==
    {Int2R(-Pow2(SignificandBits)), RZero, ROne, Int2R(2), Int2R(Pow2(SignificandBits))}

\* the mappings of up to MaxScores entries, keys in insertion order
ScoreMappings ==
    UNION {{[i \in 1..n |-> <<NameOf(i), v[i]>>] : v \in [1..n -> ScoreVals]} :
           n \in 0..MaxScores}

KVals == (-(MaxScores + 1))..(MaxScores + 1)

InitTopK ==
    /\ pc = "normalize"
    /\ raw_scores \in ScoreMappings
    /\ cfg \in {[DEFAULT_CONFIG EXCEPT !.top_k = k] : k \in KVals}
    /\ profile = UserProfile
    /\ questions = <<>>
    /\ careers = <<>>
    /\ prefs = <<>>
    /\ qi = 0
    /\ norm_scores = <<>>
    /\ topk = <<>>
    /\ explanations = <<>>
    /\ report = "none"
    /\ history = NoFile
    /\ error = "none"

NextTopK == Normalize \/ TopK

SpecTopK == InitTopK /\ [][NextTopK]_vars

-----------------------------------------------------------------------------
(* Recommender on its own: any validated career list, profile and k *)

\* finalized profiles with E and C answered once
EngineAnswers == {1, 3, 5}
EngineProfiles ==
    {finalize(update_trait(update_trait(UserProfile, "E", a, FALSE), "C", b, FALSE)) :
        a \in EngineAnswers, b \in EngineAnswers}
EnginePrefs == {<<3, 3, 3, 3>>, <<5, 1, 1, 1>>}
EngineK == (-1)..(MaxCareers + 1)

InitEngine ==
    /\ pc = "score"
    /\ \E ix \in CareerLists : careers = CareersOf(ix)
    /\ profile \in EngineProfiles
    /\ prefs \in EnginePrefs
    /\ cfg \in {[DEFAULT_CONFIG EXCEPT !.top_k = k] : k \in EngineK}
    /\ questions = <<>>
    /\ qi = 0
    /\ raw_scores = <<>>
    /\ norm_scores = <<>>
    /\ topk = <<>>
    /\ explanations = <<>>
    /\ report = "none"
    /\ history = NoFile
    /\ error = "none"

NextEngine == Score \/ Normalize \/ TopK \/ Explain

SpecEngine == InitEngine /\ [][NextEngine]_vars

-----------------------------------------------------------------------------
(* append_history on its own: runs appending to one file *)

\* names a ranking can hold; one of them contains a comma
HistoryNamePool == {NameOf(i) : i \in 1..(MaxRank - 1)} \cup {<<"a", ",", "b">>}
Rankings ==
    UNION {{[i \in 1..n |-> <<r[i], ROne>>] :
              r \in {f \in [1..n -> HistoryNamePool] :
                        \A i, j \in 1..n : f[i] = f[j] => i = j}} :
           n \in 0..MaxRank}
HistoryProfiles ==
    {finalize(update_trait(update_trait(UserProfile, "E", a, FALSE), "E", 1, FALSE)) :
        a \in {2, 5}}

\* rows written so far
Runs(h) == IF h.exists THEN Len(h.lines) - 1 ELSE 0

\* one run reaching append_history("history.csv", profile, raw_scores, topk)
AppendHistory ==
    /\ pc = "history"
    /\ Runs(history) < MaxRuns
    /\ \E p \in HistoryProfiles, tk \in Rankings :
          /\ profile' = p
          /\ topk' = tk
          /\ history' = append_history(history, p.traits, tk)
    /\ UNCHANGED <<pc, cfg, questions, careers, prefs, qi, raw_scores, norm_scores,
                   explanations, report, error>>

InitHistory ==
    /\ pc = "history"
    /\ history = NoFile
    /\ profile = UserProfile
    /\ cfg = DEFAULT_CONFIG
    /\ questions = <<>>
    /\ careers = <<>>
    /\ prefs = <<>>
    /\ qi = 0
    /\ raw_scores = <<>>
    /\ norm_scores = <<>>
    /\ topk = <<>>
    /\ explanations = <<>>
    /\ report = "none"
    /\ error = "none"

NextHistory == AppendHistory

SpecHistory == InitHistory /\ [][NextHistory]_vars

-----------------------------------------------------------------------------
(* Claims *)

Names(tk) == [i \in 1..Len(tk) |-> tk[i][1]]

\* Recommender.score has returned
Scored ==
    \/ pc \in {"normalize", "top_k", "explain", "show", "report"}
    \/ pc = "handled" /\ error \in {"StopIteration", "AttributeError"}

\* the names under which score stores the careers cs
TrimmedNames(cs) == {strip(cs[i].name) : i \in 1..Len(cs)}
\* the last career of cs stored under name
LastNamed(cs, name) ==
    CHOOSE i \in 1..Len(cs) :
        /\ strip(cs[i].name) = name
        /\ \A j \in (i + 1)..Len(cs) : strip(cs[j].name) # name

\* a career record as the data contract describes it
WellFormedCareer(c) ==
    /\ "name" \in DOMAIN c
    /\ "weights" \in DOMAIN c
    /\ \A j \in 1..Len(c.weights) :
          c.weights[j][1] \in TraitSet /\ ~FloatRaises(c.weights[j][2])
    /\ \A j \in 1..Len(GetDict(c, "preferences")) : c.preferences[j][1] \in PrefKeySet

\* names are trimmed and unique
CleanNames(cs) ==
    /\ \A i \in 1..Len(cs) : strip(cs[i].name) = cs[i].name
    /\ \A i, j \in 1..Len(cs) : cs[i].name = cs[j].name => i = j

ValidInputs ==
    /\ validate_questions(questions) = "ok"
    /\ validate_careers(careers) = "ok"
    /\ \A i \in 1..Len(careers) : WellFormedCareer(careers[i])
    /\ CleanNames(careers)

\* C1: a run on valid config, questions and careers whose prompts are all
\* answered in range does not end in the top-level error handler before the
\* report is saved and exactly one history row is appended.
C1_RunProducesOutputs ==
    (pc = "handled" /\ ValidInputs) => (report # "none" /\ Runs(history) = 1)

\* C2: for every score mapping and every k <= 0, top_k returns the empty
\* ranking.
C2_NonPositiveKEmpty ==
    (pc = "explain" /\ cfg.top_k <= 0) => topk = <<>>

\* C3: for k >= 1, top_k returns min(k, n) pairs of the mapping, in
\* non-increasing order of score, equal scores in insertion order, and no
\* entry left out scores higher than a returned one.
C3_TopKOrdered ==
    (pc = "explain" /\ cfg.top_k >= 1) =>
        /\ Len(topk) = Min(cfg.top_k, Len(raw_scores))
        /\ \A i \in 1..Len(topk) :
              /\ HasKey(raw_scores, topk[i][1])
              /\ Get(raw_scores, topk[i][1], RZero) = topk[i][2]
        /\ \A i, j \in 1..Len(topk) :
              i < j => /\ RLe(topk[j][2], topk[i][2])
                       /\ topk[i][2] = topk[j][2] =>
                            IndexOf(raw_scores, topk[i][1]) < IndexOf(raw_scores, topk[j][1])
        /\ \A i \in 1..Len(topk), m \in 1..Len(raw_scores) :
              raw_scores[m][1] \notin Keys(topk) => RLe(raw_scores[m][2], topk[i][2])

C3_Witness ==
    /\ pc = "explain"
    /\ cfg.top_k = 2
    /\ Len(raw_scores) = 4
    /\ Len(topk) = 2
    /\ topk[1][2] = topk[2][2]
    /\ raw_scores[1][2] # topk[1][2]
    /\ RLt(raw_scores[4][2], topk[2][2])

\* C4: after every update_trait call cnt[t] <= raw[t] <= 5 * cnt[t]; after
\* finalize every trait value lies in [0, 1] and a trait without an answer
\* has the value 1/2.
C4_TraitsInUnitInterval ==
    /\ \A t \in DOMAIN profile.raw :
          /\ LikertLow * profile.cnt[t] <= profile.raw[t]
          /\ profile.raw[t] <= LikertHigh * profile.cnt[t]
    /\ pc = "finalized" =>
          \A t \in DOMAIN profile.raw :
              /\ t \in DOMAIN profile.traits
              /\ RLe(RZero, profile.traits[t])
              /\ RLe(profile.traits[t], ROne)
              /\ profile.cnt[t] = 0 => profile.traits[t] = Rat(1, 2)

C4_Witness ==
    /\ pc = "finalized"
    /\ profile.cnt["E"] = 2
    /\ profile.traits["E"] = ROne
    /\ "X" \in DOMAIN profile.raw
    /\ profile.traits["X"] = RZero
    /\ profile.cnt["O"] = 0
    /\ profile.traits["O"] = Rat(1, 2)

\* C5: no career record with a missing name or weights, an unknown trait
\* code, an unknown preference key or a non-numeric weight is in the list
\* Recommender.score has been called on.
C5_MalformedNeverScored ==
    Scored => \A i \in 1..Len(careers) : WellFormedCareer(careers[i])

\* C6: the mapping score returns has one key per distinct trimmed name, and
\* the value under a name is the score of the last record with that trimmed
\* name.
C6_LastDuplicateWins ==
    Scored =>
        /\ DistinctKeys(raw_scores)
        /\ Keys(raw_scores) = TrimmedNames(careers)
        /\ Len(raw_scores) = Cardinality(TrimmedNames(careers))
        /\ \A i \in 1..Len(raw_scores) :
              raw_scores[i][2] =
                  CareerScore(careers[LastNamed(careers, raw_scores[i][1])],
                              to_weights(prefs), profile.traits)

C6_Witness ==
    /\ Scored
    /\ Len(careers) = 2
    /\ careers[1].name # careers[2].name
    /\ strip(careers[1].name) = strip(careers[2].name)
    /\ Len(raw_scores) = 1
    /\ raw_scores[1][2] # CareerScore(careers[1], to_weights(prefs), profile.traits)

\* C7: the history file is one header line followed by one row per call,
\* and every row has exactly 9 fields, the first six the trait values of the
\* run.
C7_OneHeaderNineFields ==
    IF ~history.exists THEN history.lines = <<>>
    ELSE /\ history.lines[1] = Join(HEADERS)
         /\ \A i \in 2..Len(history.lines) :
               /\ history.lines[i] # Join(HEADERS)
               /\ Len(Split(history.lines[i])) = Len(HEADERS)
         /\ \A t \in 1..Len(TRAITS) :
               Split(history.lines[Len(history.lines)])[t] = Fmt3(profile.traits[TRAITS[t]])

\* what C8 says of one explanation e of a career with contributions contrib
WatchOutAndStrengths(e, contrib) ==
    /\ contrib = <<>> => e.watch = <<>>
    /\ contrib # <<>> =>
          /\ Len(e.watch) = 2
          /\ HasKey(contrib, e.watch[2])
          /\ LET v == Get(contrib, e.watch[2], RZero)
             IN  /\ \A j \in 1..Len(contrib) :
                       /\ RLe(v, contrib[j][2])
                       /\ contrib[j][2] = v => IndexOf(contrib, e.watch[2]) <= j
                 /\ e.watch[1] = "Watch-out" <=> RLe(v, RZero)
                 /\ e.watch[1] = "Potential growth" <=> RLt(RZero, v)
    /\ Len(e.strengths) <= 2
    /\ \A i \in 1..Len(e.strengths) :
          /\ HasKey(contrib, e.strengths[i])
          /\ RLt(RZero, Get(contrib, e.strengths[i], RZero))
    /\ \A i, j \in 1..Len(e.strengths) :
          i < j => /\ e.strengths[i] # e.strengths[j]
                   /\ RLe(Get(contrib, e.strengths[j], RZero),
                          Get(contrib, e.strengths[i], RZero))
    /\ \A j \in 1..Len(contrib) :
          contrib[j][1] \notin {e.strengths[i] : i \in 1..Len(e.strengths)} =>
              IF Len(e.strengths) = 2
              THEN RLe(contrib[j][2], Get(contrib, e.strengths[2], RZero))
              ELSE RLe(contrib[j][2], RZero)

\* The explanations explain returns satisfy WatchOutAndStrengths against the
\* record explain itself resolved for the name.
ResolvedCareerWatchOut ==
    pc = "show" =>
        \A i \in 1..Len(explanations) :
            LET c == careers[FirstNamed(careers, explanations[i][1], 1)]
            IN  WatchOutAndStrengths(explanations[i][2],
                                     Contrib(GetDict(c, "weights"), profile.traits))

ResolvedCareerWatchOutReached ==
    /\ pc = "show"
    /\ Len(explanations) = 2
    /\ explanations[1][2].watch[1] = "Potential growth"
    /\ Len(explanations[1][2].strengths) = 2
    /\ explanations[2][2].watch = <<"Watch-out", "E">>
    /\ explanations[2][2].strengths = <<"M">>

\* C8: for every ranked career, explain returns an explanation that names,
\* when the career has weights, exactly one watch-out trait, the one of
\* lowest contribution, phrased "Watch-out" exactly when that contribution
\* is <= 0 and "Potential growth" exactly when it is > 0; without weights
\* the segment is omitted; the strengths are at most 2 traits of
\* contribution > 0, highest first.
C8_WatchOutLowestContribution ==
    pc \in {"show", "handled"} =>
        \A i \in 1..Len(topk) :
            LET name == topk[i][1]
                c == careers[LastNamed(careers, name)]
            IN  /\ HasKey(explanations, name)
                /\ WatchOutAndStrengths(Get(explanations, name, <<>>),
                                        Contrib(GetDict(c, "weights"), profile.traits))

\* normalization keeps distinct raw scores distinct
NoCollapse ==
    \A i, j \in 1..Len(raw_scores) :
        raw_scores[i][2] # raw_scores[j][2] => norm_scores[i][2] # norm_scores[j][2]

C10_ExplainMatchesScore ==
    pc \in {"show", "handled"} =>
        /\ error = "none"
        /\ Names(explanations) = Names(topk)
        /\ \A i \in 1..Len(explanations) :
              explanations[i][2] =
                  explain_career(careers[LastNamed(careers, explanations[i][1])],
                                 profile.traits)

=============================================================================
